---------------------------- MODULE Spec2Model ----------------------------
(***************************************************************************)
(* Model of tpot2/objectives.py: the score normalizer (process_scores),    *)
(* the safe objective invoker (objective_nan_wrapper), the multi-objective *)
(* evaluator (eval_objective_list), the parallel dispatchers and the       *)
(* staged evaluator (eval_objective_list_by_steps).                        *)
(***************************************************************************)
EXTENDS Integers, Sequences, FiniteSets, TLC

(***************************************************************************)
(* Bounds of the model.                                                    *)
(***************************************************************************)
\* process_scores: rows per matrix, scores per row, target width
MaxRows == 2
MaxLen == 2
MaxN == 3
\* objective_nan_wrapper: largest verbosity level tried
MaxVerbose == 5
\* eval_objective_list: longest objective list
MaxObjs == 3
\* dispatchers: largest population, largest worker pool
MaxInd == 3
MaxJobs == 2
\* staged evaluator: largest n_steps
MaxSteps == 3

(***************************************************************************)
(* Program constants.                                                      *)
(***************************************************************************)
\* verbose >= 4: diagnostics are printed, the first warning is re-issued
VerboseSummary == 4
\* verbose >= 5: the stack trace is printed as well
VerboseTrace == 5
\* verbose=0, the default of the evaluators and dispatchers
DefaultVerbose == 0

(***************************************************************************)
(* Scores.  A score is a number, the text of a number (numpy turns the     *)
(* numbers of an array into text when the array also holds a sentinel) or  *)
(* one of the two sentinel strings.                                        *)
(***************************************************************************)
None == [tag |-> "None", val |-> 0]
Num(v) == [tag |-> "NUM", val |-> v]
NumStr(v) == [tag |-> "NUMSTR", val |-> v]
TIMEOUT == [tag |-> "TIMEOUT", val |-> 0]
INVALID == [tag |-> "INVALID", val |-> 0]

\* Python's  x in row
Contains(row, x) == \E j \in 1..Len(row) : row[j] = x

\* all sequences over S of length lo..hi
SeqsOf(S, lo, hi) == UNION {[1..k -> S] : k \in lo..hi}

\* n copies of x
Copies(x, k) == [j \in 1..k |-> x]

(***************************************************************************)
(* process_scores(scores, n), lines 18-38.                                 *)
(***************************************************************************)
\* faulty variants of process_row: the TIMEOUT test dropped; over-long rows
\* cut to n; every row that holds a sentinel rewritten, whatever its length
process_row_NoTimeoutCheck(row, w) ==
    IF Len(row) < w THEN Copies(INVALID, w) ELSE row

process_row_Truncating(row, w) ==
    IF Len(row) < w
    THEN IF Contains(row, TIMEOUT) THEN Copies(TIMEOUT, w) ELSE Copies(INVALID, w)
    ELSE SubSeq(row, 1, w)

process_row_AnySentinel(row, w) ==
    IF Len(row) < w \/ Contains(row, TIMEOUT) \/ Contains(row, INVALID)
    THEN IF Contains(row, TIMEOUT) THEN Copies(TIMEOUT, w) ELSE Copies(INVALID, w)
    ELSE row

\* the body of the loop, lines 33-37
process_row(row, w) ==
    IF Len(row) < w
    THEN IF Contains(row, TIMEOUT)
         THEN Copies(TIMEOUT, w)
         ELSE Copies(INVALID, w)
    ELSE row

process_scores(sc, w) == [i \in 1..Len(sc) |-> process_row(sc[i], w)]

(***************************************************************************)
(* Objective functions as the wrapper sees them.  A call of an objective   *)
(* on an individual either returns a value (a bare number or a sequence of *)
(* numbers), returns it only after more than the time budget ("slow"), or  *)
(* raises: an Exception, the timeout signal FunctionTimedOut, or a         *)
(* BaseException outside Exception (KeyboardInterrupt, SystemExit).        *)
(***************************************************************************)
\* val holds the number of a bare return, or the numbers of a sequence
Scalar(s) == [iterable |-> FALSE, val |-> <<s>>]
Vector(v) == [iterable |-> TRUE, val |-> v]

Does == {"return", "slow", "raise_Exception", "raise_FunctionTimedOut",
         "raise_BaseException"}

\* objective_function(individual, **objective_kwargs), line 50: the call in
\* the caller's own context
direct_call(call) ==
    CASE call.does \in {"return", "slow"} -> [exc |-> "none", value |-> call.value]
      [] call.does = "raise_Exception" -> [exc |-> "Exception", value |-> Scalar(None)]
      [] call.does = "raise_FunctionTimedOut" ->
             [exc |-> "FunctionTimedOut", value |-> Scalar(None)]
      [] call.does = "raise_BaseException" ->
             [exc |-> "BaseException", value |-> Scalar(None)]

\* func_timeout.func_timeout(timeout, objective_function, ...), line 52: the
\* call under a time budget.  The objective runs in a thread of func_timeout;
\* what that thread does with FunctionTimedOut or a BaseException raised by
\* the objective itself is not modelled (no such call is made with a timeout).
func_timeout(call) ==
    CASE call.does = "return" -> [exc |-> "none", value |-> call.value]
      [] call.does = "slow" -> [exc |-> "FunctionTimedOut", value |-> Scalar(None)]
      [] call.does = "raise_Exception" -> [exc |-> "Exception", value |-> Scalar(None)]

\* lines 54-55: a value that is not iterable is wrapped in a list
as_list(value) == IF value.iterable THEN value.val ELSE <<value.val[1]>>

\* lines 62-63, 66-70: the diagnostics printed by the handlers
timeout_prints(verbose) ==
    IF verbose >= VerboseSummary THEN <<"TIMED_OUT">> ELSE << >>

exception_prints(verbose) ==
    (IF verbose = VerboseSummary THEN <<"EXCEPTION">> ELSE << >>)
    \o (IF verbose >= VerboseTrace THEN <<"EXCEPTION_AND_TRACE">> ELSE << >>)

\* faulty variant of objective_nan_wrapper: an Exception re-raised after
\* the diagnostics
objective_nan_wrapper_Reraise(call, timeout, verbose) ==
    LET r == IF timeout = None THEN direct_call(call) ELSE func_timeout(call)
    IN  CASE r.exc = "none" ->
               [raised |-> "none", value |-> as_list(r.value), printed |-> << >>,
                warned |-> call.warns /\ verbose >= VerboseSummary]
          [] r.exc = "FunctionTimedOut" ->
               [raised |-> "none", value |-> <<TIMEOUT>>,
                printed |-> timeout_prints(verbose), warned |-> FALSE]
          [] OTHER ->
               [raised |-> r.exc, value |-> << >>,
                printed |-> exception_prints(verbose), warned |-> FALSE]

\* objective_nan_wrapper(individual, objective_function, verbose, timeout),
\* lines 41-71.  raised is the exception that leaves the wrapper ("none":
\* the wrapper returns value).
objective_nan_wrapper(call, timeout, verbose) ==
    LET r == IF timeout = None THEN direct_call(call) ELSE func_timeout(call)
    IN  CASE r.exc = "none" ->
               [raised |-> "none", value |-> as_list(r.value), printed |-> << >>,
                warned |-> call.warns /\ verbose >= VerboseSummary]
          [] r.exc = "FunctionTimedOut" ->
               [raised |-> "none", value |-> <<TIMEOUT>>,
                printed |-> timeout_prints(verbose), warned |-> FALSE]
          [] r.exc = "Exception" ->
               [raised |-> "none", value |-> <<INVALID>>,
                printed |-> exception_prints(verbose), warned |-> FALSE]
          [] OTHER ->
               [raised |-> r.exc, value |-> << >>, printed |-> << >>, warned |-> FALSE]

(***************************************************************************)
(* The objective functions and individuals of the evaluators.  obj1 has    *)
(* one output and returns the bare number 1, obj2 has two and returns      *)
(* (2, 3).  An individual is known by what each objective does on it.      *)
(***************************************************************************)
ObjFns == {"obj1", "obj2"}

Arity(o) == IF o = "obj1" THEN 1 ELSE 2

ObjReturn(o) == IF o = "obj1" THEN Scalar(Num(1)) ELSE Vector(<<Num(2), Num(3)>>)

Behaviours == {"ok", "raise", "slow"}

Individuals == [ObjFns -> Behaviours]

\* objective_function(individual, **objective_kwargs) for objective o.  An
\* objective that does not take the keywords it is handed raises TypeError.
CallOf(i, o, kwargs, accepts) ==
    [does |-> CASE kwargs # {} /\ ~accepts -> "raise_Exception"
                [] i[o] = "ok" -> "return"
                [] i[o] = "raise" -> "raise_Exception"
                [] i[o] = "slow" -> "slow",
     value |-> ObjReturn(o),
     warns |-> FALSE]

RECURSIVE Flatten(_)
Flatten(parts) ==
    IF parts = << >> THEN << >> ELSE Head(parts) \o Flatten(Tail(parts))

\* the common dtype of numpy: one string makes every number its text
Promote(row) ==
    IF \E j \in 1..Len(row) : row[j].tag # "NUM"
    THEN [j \in 1..Len(row) |->
             IF row[j].tag = "NUM" THEN NumStr(row[j].val) ELSE row[j]]
    ELSE row

\* faulty variant of np_concatenate: the sub-vectors joined in reverse order
np_concatenate_Reversed(parts) ==
    Promote(Flatten([j \in 1..Len(parts) |-> parts[Len(parts) + 1 - j]]))

\* np.concatenate(parts), lines 76 and 117
np_concatenate(parts) == Promote(Flatten(parts))

\* eval_objective_list(ind, objective_list, verbose, timeout=timeout),
\* lines 74-77, as one evaluation
eval_objective_list(i, objs, tmo, kwargs, accepts) ==
    np_concatenate([j \in 1..Len(objs) |->
        objective_nan_wrapper(CallOf(i, objs[j], kwargs, accepts), tmo,
                              DefaultVerbose).value])

(***************************************************************************)
(* The dispatchers.  Both hand dask one delayed eval_objective_list per    *)
(* individual (lines 88 and 147); the keywords of the call that            *)
(* eval_objective_list does not name itself (objective_list, verbose) and  *)
(* that the wrapper does not name (timeout) reach the objective functions. *)
(***************************************************************************)
DelayedFunction(e) == "eval_objective_list"

ObjectiveKwargs(e) ==
    IF e = "parallel_eval_objective_list_by_steps"
    THEN {"n_steps", "objective_function_weights", "final_score_strategy",
          "thresholds"}
    ELSE {}

\* faulty variant of Collected: the rows in the order the tasks completed
Collected_CompletionOrder(results, order) ==
    [j \in 1..Len(results) |-> results[order[j]]]

\* list(dask.compute(*delayed_values, ...)), lines 91-92 and 157-158: the
\* results in the order of the delayed values
Collected(results, order) == results

\* lines 95-97
Normalized(e, rows, w) ==
    IF e = "parallel_eval_objective_list" /\ w # None
    THEN process_scores(rows, w.val)
    ELSE rows

(***************************************************************************)
(* The staged evaluator, lines 104-132.  A reduced score is a fraction     *)
(* (the mean of integers) or a score's text; final_scores is unbound, one  *)
(* numpy scalar, or a vector of them.                                      *)
(***************************************************************************)
Sign(x) == IF x > 0 THEN 1 ELSE IF x < 0 THEN -1 ELSE 0

RECURSIVE SumVals(_)
SumVals(row) == IF row = << >> THEN 0 ELSE Head(row).val + SumVals(Tail(row))

Unbound == [shape |-> "unbound", vals |-> << >>]

IsNumeric(row) == \A j \in 1..Len(row) : row[j].tag = "NUM"

\* lines 121-124: scores.mean(axis=0) is the mean of the elements of this
\* step's vector (numpy cannot add strings: TypeError), scores[-1] is its
\* last element; any other strategy leaves final_scores as it was
reduce_scores(strategy, row, prev) ==
    CASE strategy = "mean" /\ IsNumeric(row) ->
             [shape |-> "scalar",
              vals |-> <<[tag |-> "NUM", num |-> SumVals(row), den |-> Len(row)]>>]
      [] strategy = "mean" -> [shape |-> "TypeError", vals |-> << >>]
      [] strategy = "last" ->
             [shape |-> "scalar",
              vals |-> <<[tag |-> row[Len(row)].tag, num |-> row[Len(row)].val,
                          den |-> 1]>>]
      [] OTHER -> prev

\* line 128: all([s*w > t*w for s, t, w in zip(final_scores, threshold,
\* signs)]) for a final_scores that can be iterated
Min2(a, b) == IF a < b THEN a ELSE b

all_above(final, threshold, signs) ==
    \A j \in 1..Min2(Len(final.vals), Min2(Len(threshold), Len(signs))) :
        final.vals[j].num * signs[j] > threshold[j] * final.vals[j].den * signs[j]

\* lines 126-129: "stop" returns early, "go" goes on to the next step.  zip
\* cannot iterate a numpy number; it iterates the characters of a numpy
\* string, which cannot be compared with a number: TypeError either way.
threshold_check(thresholds, step, final, signs) ==
    CASE ~thresholds.given -> "go"
      [] final.shape = "scalar" -> "TypeError"
      [] final.shape = "unbound" -> "UnboundLocalError"
      [] all_above(final, thresholds.rows[step + 1], signs) -> "stop"
      [] OTHER -> "go"

VARIABLES pc, ret, raised,
          scores, scores0, n,
          call, timeout, verbose, printed, warned,
          ind, objective_list, parts, calls,
          entry, individual_list, n_jobs, n_expected_columns, accepts_kwargs,
          status, offspring_scores, completed, ran,
          n_steps, objective_function_weights, final_score_strategy, thresholds,
          step, all_scores, final_scores

normVars == <<scores, scores0, n>>
wrapVars == <<call, timeout, verbose, printed, warned>>
evalVars == <<ind, objective_list, parts, calls>>
dispVars == <<entry, individual_list, n_jobs, n_expected_columns, accepts_kwargs,
              status, offspring_scores, completed, ran>>
stepVars == <<n_steps, objective_function_weights, final_score_strategy,
              thresholds, step, all_scores, final_scores>>
vars == <<pc, ret, raised, normVars, wrapVars, evalVars, dispVars, stepVars>>

Idle == "-"

NormIdle == scores = Idle /\ scores0 = Idle /\ n = Idle
WrapIdle == call = Idle /\ timeout = Idle /\ verbose = Idle /\ printed = Idle
            /\ warned = Idle
EvalIdle == ind = Idle /\ objective_list = Idle /\ parts = Idle /\ calls = Idle
DispIdle == /\ entry = Idle /\ individual_list = Idle /\ n_jobs = Idle
            /\ n_expected_columns = Idle /\ accepts_kwargs = Idle /\ status = Idle
            /\ offspring_scores = Idle /\ completed = Idle /\ ran = Idle
StepIdle == /\ n_steps = Idle /\ objective_function_weights = Idle
            /\ final_score_strategy = Idle /\ thresholds = Idle /\ step = Idle
            /\ all_scores = Idle /\ final_scores = Idle

(***************************************************************************)
(* SpecNorm: process_scores applied to an arbitrary ragged matrix.         *)
(***************************************************************************)
NormScores == {Num(1), TIMEOUT, INVALID}
NormRows == SeqsOf(NormScores, 0, MaxLen)

InitNorm ==
    /\ pc = "process_scores"
    /\ ret = None
    /\ raised = "none"
    /\ scores \in SeqsOf(NormRows, 0, MaxRows)
    /\ scores0 = scores
    /\ n \in 0..MaxN
    /\ WrapIdle
    /\ EvalIdle
    /\ DispIdle
    /\ StepIdle

\* the list is rewritten in place and returned
CallProcessScores ==
    /\ pc = "process_scores"
    /\ scores' = process_scores(scores, n)
    /\ ret' = scores'
    /\ pc' = "returned"
    /\ UNCHANGED <<raised, scores0, n, wrapVars, evalVars, dispVars, stepVars>>

NextNorm == CallProcessScores

SpecNorm == InitNorm /\ [][NextNorm]_vars

(***************************************************************************)
(* SpecWrap: one call of objective_nan_wrapper.                            *)
(***************************************************************************)
WrapValues == {Scalar(Num(5)), Vector(<<Num(2), Num(3)>>)}

InitWrap ==
    /\ pc = "objective_nan_wrapper"
    /\ ret = None
    /\ raised = "none"
    /\ NormIdle
    /\ EvalIdle
    /\ DispIdle
    /\ StepIdle
    /\ timeout \in {None, Num(1)}
    /\ call \in [does : Does, value : WrapValues, warns : BOOLEAN]
    /\ timeout # None => call.does \in {"return", "slow", "raise_Exception"}
    /\ verbose \in 0..MaxVerbose
    /\ printed = << >>
    /\ warned = FALSE

CallWrapper ==
    /\ pc = "objective_nan_wrapper"
    /\ LET r == objective_nan_wrapper(call, timeout, verbose)
       IN  /\ ret' = r.value
           /\ raised' = r.raised
           /\ printed' = r.printed
           /\ warned' = r.warned
           /\ pc' = IF r.raised = "none" THEN "returned" ELSE "raised"
    /\ UNCHANGED <<normVars, evalVars, dispVars, stepVars, call, timeout, verbose>>

NextWrap == CallWrapper

SpecWrap == InitWrap /\ [][NextWrap]_vars

(***************************************************************************)
(* SpecEval: eval_objective_list on one individual, one objective at a     *)
(* time.  calls logs the positions of objective_list whose objective has   *)
(* been handed to the wrapper; parts are the sub-vectors it returned.      *)
(***************************************************************************)
InitEval ==
    /\ pc = "eval_objective_list"
    /\ ret = None
    /\ raised = "none"
    /\ NormIdle
    /\ DispIdle
    /\ StepIdle
    /\ call = Idle /\ printed = << >> /\ warned = FALSE
    /\ verbose = DefaultVerbose
    /\ timeout \in {None, Num(1)}
    /\ ind \in Individuals
    /\ objective_list \in SeqsOf(ObjFns, 1, MaxObjs)
    /\ parts = << >>
    /\ calls = << >>

\* faulty variant of InvokeObjective: a failed objective is invoked a second time
InvokeObjective_Retry ==
    /\ pc = "eval_objective_list"
    /\ Len(parts) < Len(objective_list)
    /\ LET j == Len(parts) + 1
           r == objective_nan_wrapper(CallOf(ind, objective_list[j], {}, TRUE),
                                      timeout, verbose)
       IN  /\ calls' = IF r.value \in {<<INVALID>>, <<TIMEOUT>>}
                       THEN calls \o <<j, j>> ELSE Append(calls, j)
           /\ parts' = Append(parts, r.value)
           /\ printed' = printed \o r.printed
    /\ UNCHANGED <<pc, ret, raised, normVars, call, timeout, verbose, warned,
                   ind, objective_list, dispVars, stepVars>>

\* the next element of the list comprehension of line 76
InvokeObjective ==
    /\ pc = "eval_objective_list"
    /\ Len(parts) < Len(objective_list)
    /\ LET j == Len(parts) + 1
           r == objective_nan_wrapper(CallOf(ind, objective_list[j], {}, TRUE), timeout, verbose)
       IN  /\ calls' = Append(calls, j)
           /\ parts' = Append(parts, r.value)
           /\ printed' = printed \o r.printed
    /\ UNCHANGED <<pc, ret, raised, normVars, call, timeout, verbose, warned,
                   ind, objective_list, dispVars, stepVars>>

\* np.concatenate of the sub-vectors, and the return
Concatenate ==
    /\ pc = "eval_objective_list"
    /\ Len(parts) = Len(objective_list)
    /\ ret' = np_concatenate(parts)
    /\ pc' = "returned"
    /\ UNCHANGED <<raised, normVars, wrapVars, evalVars, dispVars, stepVars>>

NextEval == InvokeObjective \/ Concatenate

SpecEval == InitEval /\ [][NextEval]_vars

(***************************************************************************)
(* Spec: parallel_eval_objective_list.  dask runs the delayed tasks on     *)
(* n_jobs workers: a pending task starts when a worker is free, running    *)
(* tasks finish in any order, and the call returns when all are done.      *)
(***************************************************************************)
\* populations of individuals on which at most one objective fails (every
\* pattern of failing objectives is tried on one individual in SpecEval)
DispatchIndividuals ==
    {i \in Individuals : Cardinality({o \in ObjFns : i[o] # "ok"}) <= 1}

Population == SeqsOf(DispatchIndividuals, 1, MaxInd)

ScenarioObjectives == <<"obj1", "obj2">>

InitDispatch(e) ==
    /\ pc = "compute"
    /\ ret = None
    /\ raised = "none"
    /\ NormIdle
    /\ EvalIdle
    /\ StepIdle
    /\ call = Idle /\ printed = << >> /\ warned = FALSE
    /\ verbose = DefaultVerbose
    /\ timeout \in {None, Num(1)}
    /\ entry = e
    /\ individual_list \in Population
    /\ n_jobs \in 1..MaxJobs
    /\ n_expected_columns \in
         IF e = "parallel_eval_objective_list" THEN {None, Num(3)} ELSE {None}
    /\ accepts_kwargs \in
         IF e = "parallel_eval_objective_list" THEN {TRUE} ELSE BOOLEAN
    /\ status = [i \in 1..Len(individual_list) |-> "pending"]
    /\ offspring_scores = [i \in 1..Len(individual_list) |-> << >>]
    /\ completed = << >>
    /\ ran = [i \in 1..Len(individual_list) |-> Idle]

Running == {i \in 1..Len(individual_list) : status[i] = "running"}

\* a free worker takes a pending task
StartTask(i) ==
    /\ pc = "compute"
    /\ status[i] = "pending"
    /\ Cardinality(Running) < n_jobs
    /\ status' = [status EXCEPT ![i] = "running"]
    /\ UNCHANGED <<pc, ret, raised, normVars, wrapVars, evalVars, entry,
                   individual_list, n_jobs, n_expected_columns, accepts_kwargs,
                   offspring_scores, completed, ran, stepVars>>

\* a running task ends: the delayed function has evaluated its individual
FinishTask(i) ==
    /\ pc = "compute"
    /\ status[i] = "running"
    /\ status' = [status EXCEPT ![i] = "done"]
    /\ offspring_scores' = [offspring_scores EXCEPT ![i] =
           eval_objective_list(individual_list[i], ScenarioObjectives, timeout,
                               ObjectiveKwargs(entry), accepts_kwargs)]
    /\ completed' = Append(completed, i)
    /\ ran' = [ran EXCEPT ![i] = [fn |-> DelayedFunction(entry),
                                   kwargs |-> ObjectiveKwargs(entry)]]
    /\ UNCHANGED <<pc, ret, raised, normVars, wrapVars, evalVars, entry,
                   individual_list, n_jobs, n_expected_columns, accepts_kwargs,
                   stepVars>>

\* dask.compute returns; the plain dispatcher normalizes when asked to
Return ==
    /\ pc = "compute"
    /\ \A i \in 1..Len(individual_list) : status[i] = "done"
    /\ ret' = Normalized(entry, Collected(offspring_scores, completed),
                         n_expected_columns)
    /\ pc' = "returned"
    /\ UNCHANGED <<raised, normVars, wrapVars, evalVars, dispVars, stepVars>>

NextDispatch ==
    \/ \E i \in 1..Len(individual_list) : StartTask(i)
    \/ \E i \in 1..Len(individual_list) : FinishTask(i)
    \/ Return

Init == InitDispatch("parallel_eval_objective_list")

Spec == Init /\ [][NextDispatch]_vars

InitBySteps == InitDispatch("parallel_eval_objective_list_by_steps")

SpecBySteps == InitBySteps /\ [][NextDispatch]_vars

(***************************************************************************)
(* SpecSteps: eval_objective_list_by_steps on one individual and two       *)
(* objectives of one output each, whose score may differ from step to      *)
(* step; one action per iteration of the loop of line 116.  calls logs     *)
(* <<position in objective_list, step>> of every objective invoked.        *)
(***************************************************************************)
StagedObjectives == <<"s1", "s2">>

\* what one objective does at one step: a bare number, or an Exception
StepOutcomes ==
    {[does |-> "return", v |-> 1], [does |-> "return", v |-> 3],
     [does |-> "raise_Exception", v |-> 0]}

StagedCall(o) == [does |-> o.does, value |-> Scalar(Num(o.v)), warns |-> FALSE]

\* the same thresholds, one per objective, at every step
ConstantThresholds(k) == [s \in 1..k |-> <<2, 2>>]

InitSteps ==
    /\ pc = "eval_objective_list_by_steps"
    /\ ret = None
    /\ raised = "none"
    /\ scores = << >> /\ scores0 = Idle /\ n = Idle
    /\ DispIdle
    /\ call = Idle /\ printed = << >> /\ warned = FALSE
    /\ verbose = DefaultVerbose
    /\ timeout = None
    /\ ind = Idle /\ parts = Idle
    /\ objective_list = StagedObjectives
    /\ calls = << >>
    /\ n_steps \in 1..MaxSteps
    /\ objective_function_weights \in [1..Len(StagedObjectives) -> {-2, 1}]
    /\ final_score_strategy \in {"mean", "last"}
    /\ thresholds \in {[given |-> FALSE, rows |-> << >>],
                       [given |-> TRUE, rows |-> ConstantThresholds(n_steps)]}
    /\ step = 0
    /\ all_scores = << >>
    /\ final_scores = Unbound

\* one iteration of the loop, lines 117-129
RunStep ==
    /\ pc = "eval_objective_list_by_steps"
    /\ step < n_steps
    /\ \E outcome \in [1..Len(objective_list) -> StepOutcomes] :
         LET row == np_concatenate([j \in 1..Len(objective_list) |->
                        objective_nan_wrapper(StagedCall(outcome[j]), timeout,
                                              verbose).value])
             final == reduce_scores(final_score_strategy, row, final_scores)
             signs == [j \in 1..Len(objective_function_weights) |->
                          Sign(objective_function_weights[j])]
             check == IF final.shape = "TypeError" THEN "TypeError"
                      ELSE threshold_check(thresholds, step, final, signs)
         IN  /\ calls' = calls \o [j \in 1..Len(objective_list) |-> <<j, step>>]
             /\ scores' = row
             /\ all_scores' = Append(all_scores, row)
             /\ final_scores' = IF final.shape = "TypeError" THEN final_scores
                                ELSE final
             /\ raised' = IF check \in {"go", "stop"} THEN "none" ELSE check
             /\ pc' = CASE check = "go" -> pc
                        [] check = "stop" -> "returned"
                        [] OTHER -> "raised"
             /\ ret' = IF check = "stop"
                       THEN [scores |-> row, final_scores |-> final]
                       ELSE ret
             /\ step' = IF check = "go" THEN step + 1 ELSE step
    /\ UNCHANGED <<scores0, n, wrapVars, ind, objective_list, parts, dispVars,
                   n_steps, objective_function_weights, final_score_strategy,
                   thresholds>>

\* line 132, after the last step
ReturnLast ==
    /\ pc = "eval_objective_list_by_steps"
    /\ step = n_steps
    /\ ret' = [scores |-> scores, final_scores |-> final_scores]
    /\ pc' = "returned"
    /\ UNCHANGED <<raised, normVars, wrapVars, evalVars, dispVars, stepVars>>

NextSteps == RunStep \/ ReturnLast

SpecSteps == InitSteps /\ [][NextSteps]_vars

(***************************************************************************)
(* Properties.                                                             *)
(***************************************************************************)
Max2(a, b) == IF a > b THEN a ELSE b

\* the score whatever its representation (the number for its text)
Plain(row) ==
    [j \in 1..Len(row) |-> IF row[j].tag = "NUMSTR" THEN Num(row[j].val) ELSE row[j]]

Succeeds(i, o, tmo) == i[o] = "ok" \/ (i[o] = "slow" /\ tmo = None)

\* the sub-vector of objective o on individual i
SubVector(i, o, tmo) ==
    CASE Succeeds(i, o, tmo) -> IF o = "obj1" THEN <<Num(1)>> ELSE <<Num(2), Num(3)>>
      [] i[o] = "raise" -> <<INVALID>>
      [] OTHER -> <<TIMEOUT>>

RECURSIVE SumArity(_)
SumArity(objs) == IF objs = << >> THEN 0 ELSE Arity(Head(objs)) + SumArity(Tail(objs))

RECURSIVE SumWidth(_, _, _)
SumWidth(i, objs, tmo) ==
    IF objs = << >> THEN 0
    ELSE Len(SubVector(i, Head(objs), tmo)) + SumWidth(i, Tail(objs), tmo)

C8_FixedSlices ==
    pc = "returned" =>
        /\ Len(ret) = SumArity(objective_list)
        /\ \A j \in 1..Len(objective_list) :
             Succeeds(ind, objective_list[j], timeout) =>
                 LET off == SumArity(SubSeq(objective_list, 1, j - 1))
                 IN  /\ off + Arity(objective_list[j]) <= Len(ret)
                     /\ SubSeq(Plain(ret), off + 1, off + Arity(objective_list[j]))
                            = SubVector(ind, objective_list[j], timeout)

\* C8 as amended: a failed objective contributes one sentinel whatever its
\* arity: the length is the sum of the arities of the objectives that
\* returned plus one per failed objective, each sub-vector starts where the
\* sub-vectors actually returned before it end, and the length is the sum
\* of the arities exactly when every failed objective has arity 1.
C8_RawSlices ==
    pc = "returned" =>
        /\ Len(ret) = SumWidth(ind, objective_list, timeout)
        /\ \A j \in 1..Len(objective_list) :
             LET off == SumWidth(ind, SubSeq(objective_list, 1, j - 1), timeout)
                 sub == SubVector(ind, objective_list[j], timeout)
             IN  SubSeq(Plain(ret), off + 1, off + Len(sub)) = sub
        /\ Len(ret) = SumArity(objective_list) <=>
             \A j \in 1..Len(objective_list) :
                 Succeeds(ind, objective_list[j], timeout)
                 \/ Arity(objective_list[j]) = 1

C8_Witness ==
    /\ pc = "returned"
    /\ Len(objective_list) >= 2
    /\ objective_list[1] = "obj2"
    /\ ~Succeeds(ind, "obj2", timeout)
    /\ Succeeds(ind, objective_list[2], timeout)
    /\ Len(ret) < SumArity(objective_list)

\* the row of individual i alone, normalized when a width is given
RowAlone(i) ==
    LET raw == eval_objective_list(i, ScenarioObjectives, timeout, {}, TRUE)
    IN  IF n_expected_columns = None THEN raw
        ELSE process_row(raw, n_expected_columns.val)

Failing(i) == \E o \in ObjFns : ~Succeeds(i, o, timeout)

\* some task can start or finish, or the call can return
CanGoOn ==
    \/ \E i \in 1..Len(individual_list) :
          status[i] = "pending" /\ Cardinality(Running) < n_jobs
    \/ \E i \in 1..Len(individual_list) : status[i] = "running"
    \/ \A i \in 1..Len(individual_list) : status[i] = "done"

Healthy == [o \in ObjFns |-> "ok"]
Obj1Raises == [o \in ObjFns |-> IF o = "obj1" THEN "raise" ELSE "ok"]

Scenario ==
    /\ individual_list = <<Healthy, Obj1Raises, Healthy>>
    /\ n_expected_columns = Num(3)

\* C5 as claimed: in the scenario the result is [[1,2,3], three INVALIDs,
\* [1,2,3]].
C5_InvalidBlock ==
    (Scenario /\ pc = "returned") =>
        ret = << <<Num(1), Num(2), Num(3)>>,
                 <<INVALID, INVALID, INVALID>>,
                 <<Num(1), Num(2), Num(3)>> >>

\* C5 as amended: in the scenario the rows of A and C are the numbers
\* [1,2,3] and the row of B is ["INVALID", "2", "3"]: one INVALID in the
\* column of obj1 and the outputs of obj2, as text, in theirs; the row has
\* three elements and process_scores leaves it as it is.
C5_InvalidColumn ==
    (Scenario /\ pc = "returned") =>
        ret = << <<Num(1), Num(2), Num(3)>>,
                 <<INVALID, NumStr(2), NumStr(3)>>,
                 <<Num(1), Num(2), Num(3)>> >>

C5_Witness ==
    /\ Scenario
    /\ pc = "returned"
    /\ ret[2][1] = INVALID

\* the final scores of C9 after the steps of history h: the mean of every
\* column over the steps, or the last step's vector
ColumnSum(h, c) == SumVals([s \in 1..Len(h) |-> h[s][c]])

ClaimedFinalHolds(h, strategy, final) ==
    /\ final.shape = "vector"
    /\ Len(final.vals) = Len(h[Len(h)])
    /\ \A c \in 1..Len(final.vals) :
         IF strategy = "mean"
         THEN final.vals[c].num * Len(h) = ColumnSum(h, c) * final.vals[c].den
         ELSE final.vals[c].num = h[Len(h)][c].val * final.vals[c].den

\* whether, by the rule of C6, the thresholds are met after history h
ClaimedMet(h, strategy, signs) ==
    \A c \in 1..Len(h[Len(h)]) :
        IF strategy = "mean"
        THEN ColumnSum(h, c) * signs[c] > 2 * Len(h) * signs[c]
        ELSE h[Len(h)][c].val * signs[c] > 2 * signs[c]

\* C6 (for objectives that all return numbers): the steps run in order
\* 0, 1, ...; with thresholds the evaluator
\* returns the scores of the first step at which every final score is on
\* the right side of its threshold, and runs no later step; otherwise it
\* runs n_steps steps and returns the scores of the last.
C6_EarlyStop ==
    /\ calls = [j \in 1..Len(calls) |-> <<((j - 1) % 2) + 1, (j - 1) \div 2>>]
    /\ (pc # "eval_objective_list_by_steps"
        /\ \A s \in 1..Len(all_scores) : IsNumeric(all_scores[s])) =>
         LET k == Len(all_scores)
             signs == [j \in 1..2 |-> Sign(objective_function_weights[j])]
             met(s) == ClaimedMet(SubSeq(all_scores, 1, s), final_score_strategy,
                                  signs)
         IN  /\ pc = "returned"
             /\ k >= 1
             /\ ret.scores = all_scores[k]
             /\ \A s \in 1..(k - 1) : thresholds.given => ~met(s)
             /\ k < n_steps => (thresholds.given /\ met(k))

\* C9: after every step the step's vector is the last of the history and
\* final_scores is a vector with one element per column: the mean of each
\* column over the steps so far, or the last step's vector.
C9_FinalScores ==
    (all_scores # << >> /\ pc # "raised") =>
        /\ all_scores[Len(all_scores)] = scores
        /\ ClaimedFinalHolds(all_scores, final_score_strategy, final_scores)

\* C10: the staged dispatcher runs eval_objective_list_by_steps once per
\* individual, and n_steps, the weights, the strategy and the thresholds
\* go to it and not to the objective functions.
C10_StagedFanOut ==
    pc = "returned" =>
        \A i \in 1..Len(individual_list) :
            /\ ran[i].fn = "eval_objective_list_by_steps"
            /\ ran[i].kwargs = {}

=============================================================================
